---------------------------- MODULE Spec2Model ----------------------------
(***************************************************************************)
(* Stack Blur (Mario Klingemann) as implemented by jni/stackblur/          *)
(* stackblur.cpp: the two scaling tables, the function stackblur() with    *)
(* its two passes, and the JNI entry point that runs step 1 and then       *)
(* step 2 on the same buffer.  One action per loop iteration or loop exit. *)
(* Unsigned 32-bit values are kept as TLC integers in two's complement     *)
(* (a value v >= 2^31 is held as v - 2^32) and all arithmetic on them goes *)
(* through the U32 operators, which work on 16-bit halves.  The sums are    *)
(* unsigned long: 32 bits wide on the 32-bit ABIs, which is the width      *)
(* modelled; a 64-bit build computes the same values as long as no 32-bit  *)
(* operation wraps.                                                        *)
(***************************************************************************)
EXTENDS Integers, Sequences, FiniteSets, TLC

\* ------------------------------------------------------------ bounds
\* largest number of pixels (w * h) of an enumerated image
MaxPixels == 6
\* largest radius of the enumerated images (the radius sweep goes to 254)
MaxRadius == 3

\* ------------------------------------------------------------ constants
\* number of entries of stackblur_mul / stackblur_shr
TableSize == 255
\* largest value of an unsigned char sample
MaxSample == 255
\* upper limit of the clamp applied before the store
ClampMax == 255
\* 2^16, the half of a 32-bit unsigned value
Half == 65536

\* ------------------------------------------------------------ tables
stackblur_mul ==
    <<
       512,512,456,512,328,456,335,512,405,328,271,456,388,335,292,512,
       454,405,364,328,298,271,496,456,420,388,360,335,312,292,273,512,
       482,454,428,405,383,364,345,328,312,298,284,271,259,496,475,456,
       437,420,404,388,374,360,347,335,323,312,302,292,282,273,265,512,
       497,482,468,454,441,428,417,405,394,383,373,364,354,345,337,328,
       320,312,305,298,291,284,278,271,265,259,507,496,485,475,465,456,
       446,437,428,420,412,404,396,388,381,374,367,360,354,347,341,335,
       329,323,318,312,307,302,297,292,287,282,278,273,269,265,261,512,
       505,497,489,482,475,468,461,454,447,441,435,428,422,417,411,405,
       399,394,389,383,378,373,368,364,359,354,350,345,341,337,332,328,
       324,320,316,312,309,305,301,298,294,291,287,284,281,278,274,271,
       268,265,262,259,257,507,501,496,491,485,480,475,470,465,460,456,
       451,446,442,437,433,428,424,420,416,412,408,404,400,396,392,388,
       385,381,377,374,370,367,363,360,357,354,350,347,344,341,338,335,
       332,329,326,323,320,318,315,312,310,307,304,302,299,297,294,292,
       289,287,285,282,280,278,275,273,271,269,267,265,263,261,259
    >>

stackblur_shr ==
    <<
       9,11,12,13,13,14,14,15,15,15,15,16,16,16,16,17,
       17,17,17,17,17,17,18,18,18,18,18,18,18,18,18,19,
       19,19,19,19,19,19,19,19,19,19,19,19,19,20,20,20,
       20,20,20,20,20,20,20,20,20,20,20,20,20,20,20,21,
       21,21,21,21,21,21,21,21,21,21,21,21,21,21,21,21,
       21,21,21,21,21,21,21,21,21,21,22,22,22,22,22,22,
       22,22,22,22,22,22,22,22,22,22,22,22,22,22,22,22,
       22,22,22,22,22,22,22,22,22,22,22,22,22,22,22,23,
       23,23,23,23,23,23,23,23,23,23,23,23,23,23,23,23,
       23,23,23,23,23,23,23,23,23,23,23,23,23,23,23,23,
       23,23,23,23,23,23,23,23,23,23,23,23,23,23,23,23,
       23,23,23,23,23,24,24,24,24,24,24,24,24,24,24,24,
       24,24,24,24,24,24,24,24,24,24,24,24,24,24,24,24,
       24,24,24,24,24,24,24,24,24,24,24,24,24,24,24,24,
       24,24,24,24,24,24,24,24,24,24,24,24,24,24,24,24,
       24,24,24,24,24,24,24,24,24,24,24,24,24,24,24
    >>

\* ------------------------------------------------------------ 32-bit unsigned
\* the upper and the lower 16 bits of a 32-bit unsigned value
U32Hi(a) == (a \div Half) % Half

U32Lo(a) == a % Half

\* the 32-bit unsigned value with upper half hi and lower half lo
U32Make(hi, lo) == (IF hi >= Half \div 2 THEN hi - Half ELSE hi) * Half + lo

\* a + b modulo 2^32, and whether the true sum exceeds 2^32 - 1
U32Add(a, b) ==
    LET lo == U32Lo(a) + U32Lo(b)
        hi == U32Hi(a) + U32Hi(b) + (lo \div Half)
    IN  U32Make(hi % Half, lo % Half)

U32AddCarry(a, b) ==
    U32Hi(a) + U32Hi(b) + ((U32Lo(a) + U32Lo(b)) \div Half) >= Half

\* a - b modulo 2^32, and whether the true difference is below 0
U32Sub(a, b) ==
    LET lo == U32Lo(a) - U32Lo(b)
        hi == U32Hi(a) - U32Hi(b) + (lo \div Half)
    IN  U32Make(hi % Half, lo % Half)

U32SubBorrow(a, b) ==
    U32Hi(a) - U32Hi(b) + ((U32Lo(a) - U32Lo(b)) \div Half) < 0

\* unsigned comparisons
U32Lt(a, b) ==
    \/ U32Hi(a) < U32Hi(b)
    \/ U32Hi(a) = U32Hi(b) /\ U32Lo(a) < U32Lo(b)

U32Le(a, b) == ~U32Lt(b, a)

\* a * m for a 16-bit m: the three parts of the 48-bit product,
\* product = lo + mid * 2^16 + top * 2^32
U32MulParts(a, m) ==
    LET sl == U32Lo(a)
        sh == U32Hi(a)
        ml == m % 256
        mh == m \div 256
        t0 == sl * ml
        t1 == sl * mh
        t2 == sh * ml
        t3 == sh * mh
        p0 == t0 + (t1 % 256) * 256
        p1 == (p0 \div Half) + (t1 \div 256) + t2 + (t3 % 256) * 256
    IN  [lo |-> p0 % Half, mid |-> p1 % Half, top |-> (p1 \div Half) + (t3 \div 256)]

\* a * m modulo 2^32, and whether the true product exceeds 2^32 - 1
U32Mul(a, m) == LET p == U32MulParts(a, m) IN U32Make(p.mid, p.lo)

U32MulCarry(a, m) == U32MulParts(a, m).top > 0

\* a >> k for 0 <= k < 32
U32Shr(a, k) ==
    IF k < 16
    THEN U32Make(U32Hi(a) \div 2^k,
                 (U32Lo(a) \div 2^k) + (U32Hi(a) % 2^k) * 2^(16 - k))
    ELSE U32Make(0, U32Hi(a) \div 2^(k - 16))

\* a >> k as the build computes it: a shift count of 32 or more is undefined
\* (an ARM register shift gives 0, an x86 shift uses the count modulo 32)
U32ShrOutcomes(a, k) ==
    IF k < 32 THEN {U32Shr(a, k)} ELSE {0, U32Shr(a, k % 32)}

\* clamp(a, min, max) on an unsigned long a with int bounds 0 <= min <= max
clamp(a, min, max) ==
    IF U32Lt(a, min) THEN min ELSE IF U32Lt(max, a) THEN max ELSE a

\* ------------------------------------------------------------ state
VARIABLES
    src, w, h, radius,                    \* the arguments of the entry point
    pc, step,                             \* position in the entry point / in stackblur()
    x, y, xp, yp, i, sp, stack_start,     \* locals of stackblur()
    stack, src_ptr, dst_ptr,
    sum, sum_in, sum_out,
    wm, hm, div, mul_sum, shr_sum,
    input,                                \* the buffer as it was handed in
    pass_in,                              \* the buffer when the running step began
    written,                              \* offsets stored to in the running step
    fresh,                                \* stack entries stored to in the running line
    acc, sacc,                            \* buffer offsets / stack indices the last action touched
    oob,                                  \* some access left its array
    ovf,                                  \* some 32-bit operation wrapped
    lateRead,                             \* the running line read a sample it had already overwritten
    staleRead,                            \* a stack entry was read before the running line stored it
    outcome                               \* what the entry point reported

args == <<src, w, h, radius, input>>

locals == <<x, y, xp, yp, i, sp, stack_start, stack, src_ptr, dst_ptr,
            sum, sum_in, sum_out, wm, hm, div, mul_sum, shr_sum>>

ghosts == <<pass_in, written, fresh, acc, sacc, oob, ovf, lateRead, staleRead>>

vars == <<args, pc, step, locals, ghosts, outcome>>

\* ------------------------------------------------------------ inputs
\* sample values of the enumerated images
Samples == {0, MaxSample}

\* what a read beyond an array may return: a byte, a 16-bit table entry
OobBytes == {0, MaxSample}

OobShorts == {0, Half - 1}

\* what the variable-length array stack holds before it is stored to
Garbage == {0, MaxSample}

\* the outcomes the interface description names for a rejected call
ErrorOutcomes == {"InvalidRadius", "InvalidDimensions", "BufferTooSmall"}

Buffers(n) == [0 .. n - 1 -> Samples]

\* images of at most MaxPixels samples over Samples, radius up to MaxRadius
SmallInputs ==
    { [w |-> ww, h |-> hh, radius |-> r, src |-> b] :
        ww \in 1 .. MaxPixels, hh \in 1 .. MaxPixels, r \in 0 .. MaxRadius,
        b \in UNION { Buffers(n) : n \in 1 .. MaxPixels } }

\* a single pixel of every value, radius up to MaxRadius
PixelInputs ==
    { [w |-> 1, h |-> 1, radius |-> r, src |-> [k \in 0 .. 0 |-> v]] :
        r \in 0 .. MaxRadius, v \in 0 .. MaxSample }

\* a single saturated pixel under every radius of the tables
SweepInputs ==
    { [w |-> 1, h |-> 1, radius |-> r, src |-> [k \in 0 .. 0 |-> MaxSample]] :
        r \in 0 .. TableSize - 1 }

\* calls that break a precondition: radius beyond the tables, width 0,
\* height 0, a buffer shorter than w * h
BadInputs ==
    { [w |-> 1, h |-> 1, radius |-> TableSize, src |-> [k \in 0 .. 0 |-> MaxSample]],
      [w |-> 0, h |-> 1, radius |-> 1, src |-> [k \in {} |-> 0]],
      [w |-> 1, h |-> 0, radius |-> 1, src |-> [k \in {} |-> 0]],
      [w |-> 2, h |-> 1, radius |-> 1, src |-> [k \in 0 .. 0 |-> MaxSample]] }

BufLen(b) == Cardinality(DOMAIN b)

\* the preconditions of the blur: dimensions, table domain, buffer length
Pre ==
    /\ w >= 1 /\ h >= 1
    /\ radius <= TableSize - 1
    /\ BufLen(input) = w * h

Init ==
    /\ \E a \in { s \in SmallInputs : BufLen(s.src) = s.w * s.h }
                 \cup PixelInputs \cup SweepInputs \cup BadInputs :
          /\ src = a.src /\ input = a.src
          /\ w = a.w /\ h = a.h /\ radius = a.radius
    /\ pc = "call1" /\ step = 0
    /\ x = 0 /\ y = 0 /\ xp = 0 /\ yp = 0 /\ i = 0 /\ sp = 0 /\ stack_start = 0
    /\ stack = [k \in {} |-> 0] /\ src_ptr = 0 /\ dst_ptr = 0
    /\ sum = 0 /\ sum_in = 0 /\ sum_out = 0
    /\ wm = 0 /\ hm = 0 /\ div = 0 /\ mul_sum = 0 /\ shr_sum = 0
    /\ pass_in = src /\ written = {} /\ fresh = {}
    /\ acc = {} /\ sacc = {}
    /\ oob = FALSE /\ ovf = FALSE /\ lateRead = FALSE /\ staleRead = FALSE
    /\ outcome = "none"

\* ------------------------------------------------------------ memory
\* src_ptr[0]: the sample at an offset of the pixel buffer
PixAt(buf, off) == IF off \in DOMAIN buf THEN {buf[off]} ELSE OobBytes

\* dst_ptr[0] = v: a store beyond the buffer leaves the buffer as it is
PixStore(buf, off, v) == IF off \in DOMAIN buf THEN [buf EXCEPT ![off] = v] ELSE buf

\* stack_ptr[0] with stack_ptr = &stack[k]
StackAt(s, k) == IF k \in DOMAIN s THEN {s[k]} ELSE OobBytes

StackStore(s, k, v) == IF k \in DOMAIN s THEN [s EXCEPT ![k] = v] ELSE s

\* mutant: the multiplier of the next radius
MulRead_NextEntry(r) ==
    IF r + 1 < TableSize THEN {stackblur_mul[r + 2]}
    ELSE IF r < TableSize THEN {stackblur_mul[r + 1]} ELSE OobShorts

\* mutant: a shift one bit longer than the table's
ShrRead_OneMore(r) == IF r < TableSize THEN {stackblur_shr[r + 1] + 1} ELSE OobBytes

\* stackblur_mul[radius], stackblur_shr[radius]
MulRead(r) == IF r < TableSize THEN {stackblur_mul[r + 1]} ELSE OobShorts

ShrRead(r) == IF r < TableSize THEN {stackblur_shr[r + 1]} ELSE OobBytes

\* what an action touched, and what that did to the bookkeeping
Track(rd, wr, srd, swr, carry, late, stale) ==
    /\ acc' = rd \cup wr
    /\ sacc' = srd \cup swr
    /\ oob' = (oob \/ ~((rd \cup wr) \subseteq DOMAIN src)
                   \/ ~((srd \cup swr) \subseteq DOMAIN stack))
    /\ ovf' = (ovf \/ carry)
    /\ written' = written \cup wr
    /\ fresh' = fresh \cup swr
    /\ lateRead' = (lateRead \/ late)
    /\ staleRead' = (staleRead \/ stale)

\* ------------------------------------------------------------ kernel pieces
\* mutant: the first loop stops one short (i < radius)
InitACond_OneShort(ii, r) == ii < r

\* for (i = 0; i <= radius; i++): the condition of the first loop of a line
InitACond(ii, r) == ii <= r

\* mutant: weights 0 .. radius for the copies of the first sample
InitWeightA_FromZero(ii) == ii

\* weight of the i-th copy of the first sample (sum += src_ptr[0] * (i + 1))
InitWeightA(ii) == ii + 1

\* mutant: weights radius - 1 .. 0 for the samples ahead
InitWeightB_OneLess(r, ii) == r - ii

\* weight of the sample i places ahead (sum += src_ptr[0] * (radius + 1 - i))
InitWeightB(r, ii) == r + 1 - ii

\* mutant: the read pointer moves on past the end of the line
InitAdvances_NoEdge(ii, m) == TRUE

\* if (i <= wm): the second loop of a line moves the read pointer
InitAdvances(ii, m) == U32Le(ii, m)

\* mutant: the comparison the wrong way round (xp > wm)
ReadAdvances_Reversed(p, m) == U32Lt(m, p)

\* if (xp < wm): the emit loop moves the read pointer
ReadAdvances(p, m) == U32Lt(p, m)

\* xp = radius; if (xp > wm) xp = wm
FirstRead(r, m) == IF U32Lt(m, r) THEN m ELSE r

\* stack_start = sp + div - radius; if (stack_start >= div) stack_start -= div
StackStart(spv, d, r) == IF spv + d - r >= d THEN spv + d - r - d ELSE spv + d - r

\* ++sp; if (sp >= div) sp = 0
NextSp(spv, d) == IF spv + 1 >= d THEN 0 ELSE spv + 1

\* mutant: the shift one bit short
Scaled_ShiftShort(s, m, k) == U32ShrOutcomes(U32Mul(s, m), IF k > 0 THEN k - 1 ELSE k)

\* (sum * mul_sum) >> shr_sum, before the clamp
Scaled(s, m, k) == U32ShrOutcomes(U32Mul(s, m), k)

\* mutant: the sums carried over from the line before
LineSums_Kept == [sum |-> sum, sum_in |-> sum_in, sum_out |-> sum_out]

\* sum = sum_in = sum_out = 0 at the start of a line
LineSums == [sum |-> 0, sum_in |-> 0, sum_out |-> 0]

\* the body of an emit loop with its reads resolved: raw is the scaled sum,
\* t0 the stack entry at stack_start, v the sample at the new read pointer p1,
\* t1 the stack entry at the advanced sp.  The store to dst_ptr[0] comes
\* first; the sample is read after it.
EmitBody(raw, v, t0, t1, p1, ss, sp1) ==
    LET out  == clamp(raw, 0, ClampMax)
        sum1 == U32Sub(sum, sum_out)
        so1  == U32Sub(sum_out, t0)
        sin1 == U32Add(sum_in, v)
        sum2 == U32Add(sum1, sin1)
        so2  == U32Add(so1, t1)
        sin2 == U32Sub(sin1, t1)
    IN  /\ src' = PixStore(src, dst_ptr, out)
        /\ stack_start' = ss
        /\ stack' = StackStore(stack, ss, v)
        /\ src_ptr' = p1
        /\ sp' = sp1
        /\ sum' = sum2 /\ sum_in' = sin2 /\ sum_out' = so2
        /\ Track({p1}, {dst_ptr}, {ss, sp1}, {ss},
                 \/ U32MulCarry(sum, mul_sum)
                 \/ U32SubBorrow(sum, sum_out) \/ U32SubBorrow(sum_out, t0)
                 \/ U32AddCarry(sum_in, v) \/ U32AddCarry(sum1, sin1)
                 \/ U32AddCarry(so1, t1) \/ U32SubBorrow(sin1, t1),
                 p1 \in written \cup {dst_ptr},
                 ss \notin fresh \/ sp1 \notin fresh \cup {ss})

\* the body of an emit loop for the read pointer p1, each read in the order
\* of the code: the sample after the store to dst_ptr[0], the stack entry at
\* the advanced sp after the store to stack[stack_start]
EmitAt(p1) ==
    LET ss  == StackStart(sp, div, radius)
        sp1 == NextSp(sp, div)
    IN  \E raw \in Scaled(sum, mul_sum, shr_sum) :
        \E t0 \in StackAt(stack, ss) :
        \E v \in PixAt(PixStore(src, dst_ptr, clamp(raw, 0, ClampMax)), p1) :
        \E t1 \in StackAt(StackStore(stack, ss, v), sp1) :
            EmitBody(raw, v, t0, t1, p1, ss, sp1)

\* the first loop of a line: stack[i] = src_ptr[0], weights 1 .. radius + 1
InitABody ==
    \E v \in PixAt(src, src_ptr) :
        /\ stack' = StackStore(stack, i, v)
        /\ sum' = U32Add(sum, v * InitWeightA(i))
        /\ sum_out' = U32Add(sum_out, v)
        /\ i' = i + 1
        /\ Track({src_ptr}, {}, {}, {i},
                 U32AddCarry(sum, v * InitWeightA(i)) \/ U32AddCarry(sum_out, v),
                 src_ptr \in written, FALSE)

\* the second loop of a line, with the read pointer already moved to p1:
\* stack[i + radius] = src_ptr[0], weights radius .. 1
InitBBody(p1) ==
    \E v \in PixAt(src, p1) :
        /\ src_ptr' = p1
        /\ stack' = StackStore(stack, i + radius, v)
        /\ sum' = U32Add(sum, v * InitWeightB(radius, i))
        /\ sum_in' = U32Add(sum_in, v)
        /\ i' = i + 1
        /\ Track({p1}, {}, {}, {i + radius},
                 U32AddCarry(sum, v * InitWeightB(radius, i)) \/ U32AddCarry(sum_in, v),
                 p1 \in written, FALSE)

\* an action that touches neither the buffer nor the stack
Quiet ==
    /\ acc' = {} /\ sacc' = {}
    /\ UNCHANGED <<oob, ovf, written, fresh, lateRead, staleRead>>

\* the start of a line: nothing of the line has been stored or read yet
LineGhosts ==
    /\ acc' = {} /\ sacc' = {}
    /\ fresh' = {} /\ lateRead' = FALSE
    /\ UNCHANGED <<oob, ovf, written, staleRead>>

\* ------------------------------------------------------------ stackblur()
\* the declarations at the top of stackblur(): wm, hm, div, the two table
\* reads and the variable-length array stack.  The other locals hold nothing
\* that is read before the loops assign them.
Enter(s) ==
    /\ step' = s
    /\ wm' = U32Sub(w, 1)
    /\ hm' = U32Sub(h, 1)
    /\ div' = (radius * 2) + 1
    /\ \E m \in MulRead(radius) : mul_sum' = m
    /\ \E k \in ShrRead(radius) : shr_sum' = k
    /\ \E g \in Garbage : stack' = [k \in 0 .. (radius * 2) |-> g]
    /\ x' = 0 /\ y' = 0 /\ xp' = 0 /\ yp' = 0 /\ i' = 0 /\ sp' = 0
    /\ stack_start' = 0 /\ src_ptr' = 0 /\ dst_ptr' = 0
    /\ sum' = 0 /\ sum_in' = 0 /\ sum_out' = 0
    /\ pass_in' = src /\ written' = {} /\ fresh' = {}
    /\ acc' = {} /\ sacc' = {}
    /\ oob' = (oob \/ radius >= TableSize)
    /\ lateRead' = FALSE
    /\ UNCHANGED <<args, ovf, staleRead, outcome>>

\* stackblur(pixels, width, height, radius, 1)
Call1 ==
    /\ pc = "call1"
    /\ Enter(1)
    /\ pc' = "s1_line"

\* for (y = 0; y < h; y++): the head of a row
Step1_Line ==
    /\ pc = "s1_line" /\ y < h
    /\ sum' = LineSums.sum /\ sum_in' = LineSums.sum_in /\ sum_out' = LineSums.sum_out
    /\ src_ptr' = y * w
    /\ i' = 0
    /\ pc' = "s1_initA"
    /\ LineGhosts
    /\ UNCHANGED <<args, step, x, y, xp, yp, sp, stack_start, stack, dst_ptr,
                   wm, hm, div, mul_sum, shr_sum, pass_in, outcome>>

\* for (i = 0; i <= radius; i++)
Step1_InitA ==
    /\ pc = "s1_initA" /\ InitACond(i, radius)
    /\ InitABody
    /\ UNCHANGED <<args, pc, step, x, y, xp, yp, sp, stack_start, src_ptr, dst_ptr,
                   sum_in, wm, hm, div, mul_sum, shr_sum, pass_in, outcome>>

Step1_InitADone ==
    /\ pc = "s1_initA" /\ ~InitACond(i, radius)
    /\ i' = 1
    /\ pc' = "s1_initB"
    /\ Quiet
    /\ UNCHANGED <<args, step, x, y, xp, yp, sp, stack_start, stack, src_ptr, dst_ptr,
                   sum, sum_in, sum_out, wm, hm, div, mul_sum, shr_sum, pass_in, outcome>>

\* for (i = 1; i <= radius; i++) with if (i <= wm) src_ptr += 1
Step1_InitB ==
    /\ pc = "s1_initB" /\ i <= radius
    /\ InitBBody(IF InitAdvances(i, wm) THEN src_ptr + 1 ELSE src_ptr)
    /\ UNCHANGED <<args, pc, step, x, y, xp, yp, sp, stack_start, dst_ptr,
                   sum_out, wm, hm, div, mul_sum, shr_sum, pass_in, outcome>>

\* sp, xp, src_ptr and dst_ptr before the emit loop, and x = 0
Step1_Setup ==
    /\ pc = "s1_initB" /\ ~(i <= radius)
    /\ sp' = radius
    /\ xp' = FirstRead(radius, wm)
    /\ src_ptr' = FirstRead(radius, wm) + y * w
    /\ dst_ptr' = y * w
    /\ x' = 0
    /\ pc' = "s1_emit"
    /\ Quiet
    /\ UNCHANGED <<args, step, y, yp, i, stack_start, stack,
                   sum, sum_in, sum_out, wm, hm, div, mul_sum, shr_sum, pass_in, outcome>>

\* for (x = 0; x < w; x++)
Step1_Emit ==
    /\ pc = "s1_emit" /\ x < w
    /\ EmitAt(IF ReadAdvances(xp, wm) THEN src_ptr + 1 ELSE src_ptr)
    /\ xp' = (IF ReadAdvances(xp, wm) THEN xp + 1 ELSE xp)
    /\ dst_ptr' = dst_ptr + 1
    /\ x' = x + 1
    /\ UNCHANGED <<w, h, radius, input, pc, step, y, yp, i,
                   wm, hm, div, mul_sum, shr_sum, pass_in, outcome>>

Step1_LineEnd ==
    /\ pc = "s1_emit" /\ ~(x < w)
    /\ y' = y + 1
    /\ pc' = "s1_line"
    /\ Quiet
    /\ UNCHANGED <<args, step, x, xp, yp, i, sp, stack_start, stack, src_ptr, dst_ptr,
                   sum, sum_in, sum_out, wm, hm, div, mul_sum, shr_sum, pass_in, outcome>>

\* the row loop is over; step is not 2, so stackblur() returns
Step1_Return ==
    /\ pc = "s1_line" /\ ~(y < h)
    /\ pc' = "call2"
    /\ Quiet
    /\ UNCHANGED <<args, step, locals, pass_in, outcome>>

\* stackblur(pixels, width, height, radius, 2)
Call2 ==
    /\ pc = "call2"
    /\ Enter(2)
    /\ pc' = "s2_line"

\* for (x = 0; x < w; x++): the head of a column
Step2_Line ==
    /\ pc = "s2_line" /\ x < w
    /\ sum' = LineSums.sum /\ sum_in' = LineSums.sum_in /\ sum_out' = LineSums.sum_out
    /\ src_ptr' = x
    /\ i' = 0
    /\ pc' = "s2_initA"
    /\ LineGhosts
    /\ UNCHANGED <<args, step, x, y, xp, yp, sp, stack_start, stack, dst_ptr,
                   wm, hm, div, mul_sum, shr_sum, pass_in, outcome>>

Step2_InitA ==
    /\ pc = "s2_initA" /\ InitACond(i, radius)
    /\ InitABody
    /\ UNCHANGED <<args, pc, step, x, y, xp, yp, sp, stack_start, src_ptr, dst_ptr,
                   sum_in, wm, hm, div, mul_sum, shr_sum, pass_in, outcome>>

Step2_InitADone ==
    /\ pc = "s2_initA" /\ ~InitACond(i, radius)
    /\ i' = 1
    /\ pc' = "s2_initB"
    /\ Quiet
    /\ UNCHANGED <<args, step, x, y, xp, yp, sp, stack_start, stack, src_ptr, dst_ptr,
                   sum, sum_in, sum_out, wm, hm, div, mul_sum, shr_sum, pass_in, outcome>>

\* for (i = 1; i <= radius; i++) with if (i <= hm) src_ptr += w
Step2_InitB ==
    /\ pc = "s2_initB" /\ i <= radius
    /\ InitBBody(IF InitAdvances(i, hm) THEN src_ptr + w ELSE src_ptr)
    /\ UNCHANGED <<args, pc, step, x, y, xp, yp, sp, stack_start, dst_ptr,
                   sum_out, wm, hm, div, mul_sum, shr_sum, pass_in, outcome>>

Step2_Setup ==
    /\ pc = "s2_initB" /\ ~(i <= radius)
    /\ sp' = radius
    /\ yp' = FirstRead(radius, hm)
    /\ src_ptr' = x + FirstRead(radius, hm) * w
    /\ dst_ptr' = x
    /\ y' = 0
    /\ pc' = "s2_emit"
    /\ Quiet
    /\ UNCHANGED <<args, step, x, xp, i, stack_start, stack,
                   sum, sum_in, sum_out, wm, hm, div, mul_sum, shr_sum, pass_in, outcome>>

\* for (y = 0; y < h; y++)
Step2_Emit ==
    /\ pc = "s2_emit" /\ y < h
    /\ EmitAt(IF ReadAdvances(yp, hm) THEN src_ptr + w ELSE src_ptr)
    /\ yp' = (IF ReadAdvances(yp, hm) THEN yp + 1 ELSE yp)
    /\ dst_ptr' = dst_ptr + w
    /\ y' = y + 1
    /\ UNCHANGED <<w, h, radius, input, pc, step, x, xp, i,
                   wm, hm, div, mul_sum, shr_sum, pass_in, outcome>>

Step2_LineEnd ==
    /\ pc = "s2_emit" /\ ~(y < h)
    /\ x' = x + 1
    /\ pc' = "s2_line"
    /\ Quiet
    /\ UNCHANGED <<args, step, y, xp, yp, i, sp, stack_start, stack, src_ptr, dst_ptr,
                   sum, sum_in, sum_out, wm, hm, div, mul_sum, shr_sum, pass_in, outcome>>

\* the column loop is over; stackblur() and the entry point return
Step2_Return ==
    /\ pc = "s2_line" /\ ~(x < w)
    /\ pc' = "done"
    /\ outcome' = "returned"
    /\ Quiet
    /\ UNCHANGED <<args, step, locals, pass_in>>

Next ==
    \/ Call1
    \/ Step1_Line \/ Step1_InitA \/ Step1_InitADone \/ Step1_InitB
    \/ Step1_Setup \/ Step1_Emit \/ Step1_LineEnd \/ Step1_Return
    \/ Call2
    \/ Step2_Line \/ Step2_InitA \/ Step2_InitADone \/ Step2_InitB
    \/ Step2_Setup \/ Step2_Emit \/ Step2_LineEnd \/ Step2_Return

Spec == Init /\ [][Next]_vars

\* ------------------------------------------------------------ reference filter
\* clamp(k, 0, n - 1): clamp-to-edge indexing of a line of n samples
EdgeIndex(k, n) == IF k < 0 THEN 0 ELSE IF k > n - 1 THEN n - 1 ELSE k

\* SUM over j in lo .. hi of (r + 1 - |j|) * line[clamp(xx + j, 0, n - 1)],
\* summed by halves
RECURSIVE TentSum(_, _, _, _, _, _)
TentSum(line, n, r, xx, lo, hi) ==
    IF lo > hi THEN 0
    ELSE IF lo = hi
    THEN (r + 1 - (IF lo < 0 THEN -lo ELSE lo)) * line[EdgeIndex(xx + lo, n)]
    ELSE LET mid == (lo + hi) \div 2
         IN  TentSum(line, n, r, xx, lo, mid) + TentSum(line, n, r, xx, mid + 1, hi)

\* min(255, (s * stackblur_mul[r]) >> stackblur_shr[r]) over the integers
TentScale(s, r) ==
    IF U32MulCarry(s, stackblur_mul[r + 1]) THEN ClampMax
    ELSE LET q == U32Shr(U32Mul(s, stackblur_mul[r + 1]), stackblur_shr[r + 1])
         IN  IF U32Lt(ClampMax, q) THEN ClampMax ELSE q

\* the 1-D reference filter at position xx of a line of n samples
TentAt(line, n, r, xx) == TentScale(TentSum(line, n, r, xx, -r, r), r)

\* H: the reference filter on every row; V: on every column
RefH(buf, ww, hh, r) ==
    [off \in 0 .. ww * hh - 1 |->
        TentAt([k \in 0 .. ww - 1 |-> buf[(off \div ww) * ww + k]], ww, r, off % ww)]

RefV(buf, ww, hh, r) ==
    [off \in 0 .. ww * hh - 1 |->
        TentAt([k \in 0 .. hh - 1 |-> buf[k * ww + (off % ww)]], hh, r, off \div ww)]

\* the total of the tent weights 1, .., r + 1, .., 1 of a window
TentArea(r) == (r + 1) * (r + 1)

\* the square of the window size 2 * r + 1
WindowSquare(r) == (2 * r + 1) * (2 * r + 1)

\* ------------------------------------------------------------ state predicates
\* an emit loop is about to store an output
EmitPending == (pc = "s1_emit" /\ x < w) \/ (pc = "s2_emit" /\ y < h)

\* the offsets of the line being processed
LineOffsets ==
    IF step = 1 THEN { y * w + k : k \in 0 .. w - 1 }
    ELSE IF step = 2 THEN { x + k * w : k \in 0 .. h - 1 }
    ELSE {}

IsFlat(buf) == \A a, b \in DOMAIN buf : buf[a] = buf[b]

GoldenRow == [k \in 0 .. 4 |-> IF k = 2 THEN 255 ELSE 0]

IsGolden == w = 5 /\ h = 1 /\ radius = 1 /\ input = GoldenRow

\* ------------------------------------------------------------ claims
\* C1: after step 1 and then step 2 the buffer equals V(H(input)) for the
\* reference tent filter with clamp-to-edge indexing, lines shorter than the
\* radius included (pass_in is the buffer step 2 started from); the row [0,0,255,0,0] with radius 1 gives 0 at position 0
\* and 127 at position 2.
C1_TwoPassEqualsReference ==
    (Pre /\ pc = "done") =>
        /\ pass_in = RefH(input, w, h, radius)
        /\ src = RefV(pass_in, w, h, radius)
        /\ IsGolden => (src[0] = 0 /\ src[2] = 127)

C1_Witness ==
    /\ Pre /\ pc = "done" /\ IsGolden
    /\ src = [k \in 0 .. 4 |-> IF k = 2 THEN 127 ELSE IF k \in {1, 3} THEN 63 ELSE 0]

\* C2: a flat field is a fixed point: with every sample equal to v the buffer
\* is unchanged after step 1 and after step 2; the sum of a flat line is
\* v * (radius + 1)^2 at every output, and for every v in 0..255 the scaling of
\* that sum by the table entries of the radius gives v.
C2_FlatFieldFixed ==
    (Pre /\ IsFlat(input)) =>
        /\ pc \in {"call2", "done"} => src = input
        /\ EmitPending => sum = input[0] * TentArea(radius)
        /\ pc = "call1" =>
             \A v \in 0 .. MaxSample :
               \A m \in MulRead(radius) : \A k \in ShrRead(radius) :
                 \A raw \in Scaled(v * TentArea(radius), m, k) :
                   clamp(raw, 0, ClampMax) = v

C2_Witness ==
    /\ Pre /\ pc = "done" /\ IsFlat(input)
    /\ w = 3 /\ h = 2 /\ radius = MaxRadius /\ input[0] = MaxSample
    /\ src = input

\* C3: a call that breaks a precondition (radius beyond the tables, width 0,
\* height 0, buffer shorter than w * h) ends in an explicit error outcome,
\* found before any sample is changed, with no access outside the tables,
\* the stack or the buffer.
C3_BadCallRejected ==
    ~Pre =>
        /\ ~oob
        /\ src = input
        /\ pc = "done" => outcome \in ErrorOutcomes

\* C4: the scaled value (sum * mul_sum) >> shr_sum is in [0,255] before the
\* clamp at every output of both passes, and every sample stays in [0,255].
C4_ScaledInRangeBeforeClamp ==
    Pre =>
        /\ EmitPending =>
             \A raw \in Scaled(sum, mul_sum, shr_sum) :
                U32Le(0, raw) /\ U32Le(raw, ClampMax) /\ clamp(raw, 0, ClampMax) = raw
        /\ \A off \in DOMAIN src : src[off] \in 0 .. MaxSample

C4_Witness ==
    /\ Pre /\ EmitPending /\ radius = TableSize - 1
    /\ sum = MaxSample * TentArea(radius)
    /\ Scaled(sum, mul_sum, shr_sum) = {MaxSample}

\* C5 as stated: the scaling approximates s / (2*radius+1)^2 with an error of
\* at most 1 for every sum the kernel produces.
C5_ScalesByWindowSquare ==
    (Pre /\ EmitPending) =>
        \A raw \in Scaled(sum, mul_sum, shr_sum) :
            /\ raw * WindowSquare(radius) - sum <= WindowSquare(radius)
            /\ sum - raw * WindowSquare(radius) <= WindowSquare(radius)

\* C5 amended: the scaling approximates s / (radius+1)^2, the total of the
\* tent weights, with an error of at most 1: for every sum the kernel
\* produces, and for the sums v * (radius+1)^2 and v * (radius+1)^2 +
\* (radius+1)^2 - 1 of every v.
C5_ScalesByTentArea ==
    Pre =>
        /\ EmitPending =>
             \A raw \in Scaled(sum, mul_sum, shr_sum) :
                /\ raw * TentArea(radius) - sum <= TentArea(radius)
                /\ sum - raw * TentArea(radius) <= TentArea(radius)
        /\ pc = "call1" =>
             \A v \in 0 .. MaxSample : \A e \in {0, TentArea(radius) - 1} :
               LET s == v * TentArea(radius) + e
               IN  s <= MaxSample * TentArea(radius) =>
                     \A m \in MulRead(radius) : \A k \in ShrRead(radius) :
                       \A raw \in Scaled(s, m, k) :
                         /\ raw * TentArea(radius) - s <= TentArea(radius)
                         /\ s - raw * TentArea(radius) <= TentArea(radius)

C5_Witness ==
    /\ Pre /\ EmitPending /\ radius = 1
    /\ sum = 4 * MaxSample
    /\ Scaled(sum, mul_sum, shr_sum) = {MaxSample}

\* C6: in 32-bit unsigned arithmetic no addition or multiplication of sum,
\* sum_in, sum_out or sum * mul_sum exceeds 2^32 - 1 and no subtraction goes
\* below 0, and the sums stay within 255 * (radius+1)^2.
C6_NoWrapIn32Bits ==
    Pre =>
        /\ ~ovf
        /\ \A s \in {sum, sum_in, sum_out} :
             U32Le(0, s) /\ U32Le(s, MaxSample * TentArea(radius))
        /\ EmitPending => ~U32MulCarry(sum, mul_sum)

C6_Witness ==
    /\ Pre /\ pc = "done" /\ radius = TableSize - 1
    /\ input[0] = MaxSample /\ src[0] = MaxSample
    /\ ~ovf

\* C7: with radius 0 the blur leaves every sample equal to its input value.
C7_RadiusZeroIdentity ==
    (Pre /\ radius = 0) => src = input

C7_Witness ==
    /\ Pre /\ pc = "done" /\ radius = 0
    /\ w = 2 /\ h = 3 /\ input[0] # input[1] /\ input[2] # input[4]
    /\ src = input

\* C8: at every step of an emit loop the read index is at least the write
\* index, no sample that contributes to an output of the pass is read after
\* its location was overwritten, samples not yet overwritten hold their
\* value from the start of the pass, and the pass gives the buffer the
\* reference pass computes from an unmodified copy.
C8_ReadsAheadOfWrites ==
    Pre =>
        /\ (pc = "s1_emit" /\ x < w) => xp >= x
        /\ (pc = "s2_emit" /\ y < h) => yp >= y
        /\ (EmitPending \/ pc \in {"s1_initA", "s1_initB", "s2_initA", "s2_initB"})
             => ~lateRead
        /\ step \in {1, 2} =>
             \A off \in DOMAIN src : off \notin written => src[off] = pass_in[off]
        /\ pc = "call2" => src = RefH(pass_in, w, h, radius)
        /\ pc = "done" => src = RefV(pass_in, w, h, radius)

C8_Witness ==
    /\ Pre /\ pc = "s2_emit" /\ y < h
    /\ y >= 1 /\ yp = y /\ radius >= 1
    /\ written # {} /\ src # pass_in

\* C9: a line's processing touches only that line; what it stores depends on
\* the line's samples from the start of the pass and the radius only: the
\* sums are zero when the line starts, all 2*radius+1 stack entries are
\* stored by the line before any is read, and after each line the lines done
\* hold the reference result of their own samples, the others their samples.
C9_LinesIndependent ==
    Pre =>
        /\ acc \subseteq LineOffsets
        /\ ~staleRead
        /\ (pc \in {"s1_initA", "s2_initA"} /\ i = 0)
             => (sum = 0 /\ sum_in = 0 /\ sum_out = 0 /\ fresh = {})
        /\ EmitPending => fresh = 0 .. 2 * radius
        /\ (pc = "s1_emit" /\ ~(x < w)) =>
             \A off \in DOMAIN src :
                src[off] = IF off \div w <= y
                           THEN RefH(pass_in, w, h, radius)[off]
                           ELSE pass_in[off]
        /\ (pc = "s2_emit" /\ ~(y < h)) =>
             \A off \in DOMAIN src :
                src[off] = IF off % w <= x
                           THEN RefV(pass_in, w, h, radius)[off]
                           ELSE pass_in[off]

C9_Witness ==
    /\ Pre /\ pc = "s2_emit" /\ ~(y < h)
    /\ x = 1 /\ w = 2 /\ h = 3 /\ radius = 2
    /\ src[1] # src[0] /\ src # pass_in

\* C10: under the preconditions every access to the pixel buffer is at an
\* offset in [0, w*h - 1] on the line being processed and every access to the
\* stack is at an index in [0, 2*radius], also when the radius is at least
\* the line length.
C10_AccessesInBounds ==
    Pre =>
        /\ acc \subseteq 0 .. w * h - 1
        /\ acc \subseteq LineOffsets
        /\ sacc \subseteq 0 .. 2 * radius
        /\ ~oob

C10_Witness ==
    /\ Pre /\ pc = "s2_initB"
    /\ h = 2 /\ w = 3 /\ radius = MaxRadius /\ i = radius + 1
    /\ x = 2 /\ acc = {5} /\ sacc = {2 * radius}

====
